---- MODULE Spec2Model ----
(***************************************************************************)
(* Driver management system: the monthly day-off pattern expander (the     *)
(* driver_monthly_dayoff table with its trigger, the Set Pattern form and  *)
(* the pattern list) and the replacement / overtime ledger of the day      *)
(* schedule dialog, over the shared relational store.                      *)
(*                                                                         *)
(* A date is the number of days since 1970-01-01 (a Thursday).  Row ids    *)
(* stand for gen_random_uuid() values: the program only compares them for  *)
(* equality, so an id is the row's key with the least generation number    *)
(* that no live reference (a stored row, a foreign key, a handler's        *)
(* local) carries.                                                         *)
(***************************************************************************)
EXTENDS Integers, Sequences, FiniteSets, TLC

VARIABLES
    driver_monthly_dayoff,  \* table: rows [id, driver_id, month, year, day_of_week]
    schedules,              \* table: rows [id, driver_id, date, is_day_off, is_annual_leave]
    replacements,           \* table: rows [id, schedule_id, replacement_driver_id, shift_id]
    overtime_records,       \* table: rows [id, driver_id, date, hours, ot_type, ot_rate]
    trigger_variant,        \* which definition of create_monthly_dayoff_schedules is installed
    tz,                     \* the browsers' offset from UTC, in hours east
    pc,                     \* per UI session: the await its running handler has reached
    loc,                    \* per UI session: the running (or last) handler's arguments and locals
    toast                   \* per UI session: the toast of the running (or last) handler

vars == <<driver_monthly_dayoff, schedules, replacements, overtime_records,
          trigger_variant, tz, pc, loc, toast>>

----------------------------------------------------------------------------
(* Inputs *)

Drivers == {"d1", "d2", "d3"}
\* The drivers the model's users set patterns and marks for.
PatternDrivers == {"d1", "d2"}
\* The shifts of the shifts table, each worked by every driver: 1..NumShifts.
NumShifts == 2
Shifts == 1..NumShifts
Sessions == {"s1", "s2"}
\* The month and year the schedule page is opened with (initialMonth, initialYear).
PageMonth == 2
PageYear == 2024
\* The result of a maybeSingle() read that found no row.
NULL == [null |-> TRUE]

----------------------------------------------------------------------------
(* Calendar *)

IsLeap(y) == (y % 4 = 0 /\ y % 100 # 0) \/ y % 400 = 0

DaysInMonth(y, m) ==
    IF m = 2 THEN (IF IsLeap(y) THEN 29 ELSE 28)
    ELSE IF m \in {4, 6, 9, 11} THEN 30 ELSE 31

LeapsThrough(y) == (y \div 4) - (y \div 100) + (y \div 400)

RECURSIVE DaysBeforeMonth(_, _)
DaysBeforeMonth(y, m) ==
    IF m = 1 THEN 0 ELSE DaysBeforeMonth(y, m - 1) + DaysInMonth(y, m - 1)

\* make_date(year, month, day): the date as a day number.
make_date(y, m, d) ==
    365 * (y - 1970) + (LeapsThrough(y - 1) - LeapsThrough(1969))
        + DaysBeforeMonth(y, m) + (d - 1)

\* LastDayOfMonth with the day taken off first and the month added then: the
\* day of the month before, cut to the month's length.
LastDayOfMonth_DayFirst(y, m) ==
    LET before == IF m = 1 THEN DaysInMonth(y - 1, 12) ELSE DaysInMonth(y, m - 1)
    IN make_date(y, m, IF before < DaysInMonth(y, m) THEN before ELSE DaysInMonth(y, m))

\* (first + interval '1 month - 1 day')::date: the month is added first, then a
\* day is taken off.
LastDayOfMonth(y, m) ==
    IF m = 12 THEN make_date(y + 1, 1, 1) - 1 ELSE make_date(y, m + 1, 1) - 1

\* EXTRACT(DOW FROM date): 0 = Sunday .. 6 = Saturday.
DOW(date) == (date + 4) % 7

\* The session time zone of the database, hours east of UTC (the store's default).
DbSessionOffset == 0
BangkokOffset == 7

\* LocalDow with the shift to Bangkok's clock taken the wrong way.
LocalDow_WestOfUtc(date) == DOW((24 * date - DbSessionOffset - BangkokOffset) \div 24)

\* EXTRACT(DOW FROM curr_date AT TIME ZONE 'Asia/Bangkok'): the date is cast to
\* midnight of the session time zone, and the instant is read on Bangkok's clock.
LocalDow(date) == DOW((24 * date - DbSessionOffset + BangkokOffset) \div 24)

\* new Date(y, m, d) at local midnight, then toISOString().split("T")[0]: the UTC
\* date of the browser's local midnight.
ToISODate(date, offset) == (24 * date - offset) \div 24

----------------------------------------------------------------------------
(* The store: ids, constraints and the trigger *)

\* The ids that handlers in flight hold in their locals.
HeldIds ==
    UNION {
        (IF "existingPattern" \in DOMAIN loc[s] /\ loc[s].existingPattern # NULL
            THEN {loc[s].existingPattern.id} ELSE {})
        \cup (IF "patternId" \in DOMAIN loc[s] THEN {loc[s].patternId} ELSE {})
        \cup (IF "existingSchedule" \in DOMAIN loc[s] /\ loc[s].existingSchedule # NULL
            THEN {loc[s].existingSchedule.id} ELSE {})
        \cup (IF "scheduleId" \in DOMAIN loc[s] THEN {loc[s].scheduleId} ELSE {})
        \cup (IF "replacementId" \in DOMAIN loc[s] THEN {loc[s].replacementId} ELSE {})
        \cup (IF "existingOT" \in DOMAIN loc[s] /\ loc[s].existingOT # NULL
            THEN {loc[s].existingOT.id} ELSE {})
        \cup (IF "schedules" \in DOMAIN loc[s]
            THEN {r.id : r \in loc[s].schedules} ELSE {})
        \cup (IF "replacements" \in DOMAIN loc[s]
            THEN {r.id : r \in loc[s].replacements} ELSE {})
        : s \in Sessions }

\* gen_random_uuid(): an id no live reference carries.
FreshId(key, taken) ==
    LET g == CHOOSE n \in 0..Cardinality(taken) :
                 /\ <<key, n>> \notin taken
                 /\ \A k \in 0..(n - 1) : <<key, k>> \in taken
    IN <<key, g>>

\* Every id a new row of any table must differ from.
TakenIds(pat, sch, rep, ot) ==
    {r.id : r \in pat} \cup {r.id : r \in sch} \cup {r.id : r \in rep}
        \cup {r.schedule_id : r \in rep} \cup {r.id : r \in ot} \cup HeldIds

\* driver_monthly_dayoff: CHECK (month >= 1 AND month <= 12),
\* CHECK (day_of_week >= 0 AND day_of_week <= 6).
PatternChecksOk(row) ==
    /\ row.month >= 1 /\ row.month <= 12
    /\ row.day_of_week >= 0 /\ row.day_of_week <= 6

\* PatternUniqueOk of a table without the UNIQUE constraint.
PatternUniqueOk_NoConstraint(pat, row) == TRUE

\* driver_monthly_dayoff: UNIQUE(driver_id, month, year).
PatternUniqueOk(pat, row) ==
    ~ \E p \in pat : /\ p.driver_id = row.driver_id
                    /\ p.month = row.month
                    /\ p.year = row.year

\* schedules: the unique key (driver_id, date) that the trigger's ON CONFLICT
\* names.
ScheduleUniqueOk(sch, driver, date) ==
    ~ \E r \in sch : r.driver_id = driver /\ r.date = date

\* DELETE FROM schedules of the rows `gone`; replacements.schedule_id is
\* ON DELETE CASCADE.
DeleteSchedules(sch, rep, gone) ==
    [schedules |-> sch \ gone,
     replacements |-> {r \in rep : r.schedule_id \notin {g.id : g \in gone}}]

\* UpsertDayOff with DO UPDATE SET is_day_off = NOT is_day_off.
UpsertDayOff_Toggle(sch, driver, date, taken) ==
    IF ScheduleUniqueOk(sch, driver, date)
    THEN sch \cup {[id |-> FreshId(<<"schedule", driver, date>>, taken),
                    driver_id |-> driver, date |-> date,
                    is_day_off |-> TRUE, is_annual_leave |-> FALSE]}
    ELSE {IF r.driver_id = driver /\ r.date = date
             THEN [r EXCEPT !.is_day_off = ~r.is_day_off] ELSE r : r \in sch}

\* INSERT INTO schedules (driver_id, date, is_day_off) VALUES (.., .., true)
\* ON CONFLICT (driver_id, date) DO UPDATE SET is_day_off = true.
UpsertDayOff(sch, driver, date, taken) ==
    IF ScheduleUniqueOk(sch, driver, date)
    THEN sch \cup {[id |-> FreshId(<<"schedule", driver, date>>, taken),
                    driver_id |-> driver, date |-> date,
                    is_day_off |-> TRUE, is_annual_leave |-> FALSE]}
    ELSE {IF r.driver_id = driver /\ r.date = date
             THEN [r EXCEPT !.is_day_off = TRUE] ELSE r : r \in sch}

\* The weekday the loop compares with NEW.day_of_week: EXTRACT(DOW FROM curr_date
\* AT TIME ZONE 'Asia/Bangkok') in the clearing definition, EXTRACT(DOW FROM
\* current_date) in the plain one.
LoopDow(curr_date) ==
    IF trigger_variant = "clearing" THEN LocalDow(curr_date) ELSE DOW(curr_date)

\* WHILE curr_date <= last_day LOOP .. curr_date := curr_date + interval '1 day'.
RECURSIVE ExpandLoop(_, _, _, _, _, _)
ExpandLoop(sch, driver, curr_date, last_day, day_of_week, taken) ==
    IF curr_date <= last_day
    THEN ExpandLoop(
             IF LoopDow(curr_date) = day_of_week
                THEN UpsertDayOff(sch, driver, curr_date, taken) ELSE sch,
             driver, curr_date + 1, last_day, day_of_week, taken)
    ELSE sch

\* The rows the trigger's DELETE removes: the driver's day-off rows of the month.
MonthDayOffRows(sch, driver, first, last) ==
    {r \in sch : /\ r.driver_id = driver
                 /\ r.date >= first /\ r.date <= last
                 /\ r.is_day_off = TRUE}

\* create_monthly_dayoff_schedules(), AFTER INSERT OR UPDATE ... FOR EACH ROW.
\* The migration defines the function twice: with the DELETE of the month's
\* day-off rows ("clearing") and without it ("plain").
create_monthly_dayoff_schedules(NEWROW, sch, rep, taken) ==
    LET curr_date == make_date(NEWROW.year, NEWROW.month, 1)
        last_day == LastDayOfMonth(NEWROW.year, NEWROW.month)
        cleared == IF trigger_variant = "clearing"
                      THEN DeleteSchedules(sch, rep,
                               MonthDayOffRows(sch, NEWROW.driver_id, curr_date, last_day))
                      ELSE [schedules |-> sch, replacements |-> rep]
    IN [schedules |-> ExpandLoop(cleared.schedules, NEWROW.driver_id, curr_date,
                                 last_day, NEWROW.day_of_week, taken),
        replacements |-> cleared.replacements]

----------------------------------------------------------------------------
(* Set Pattern: DriverMonthlyDayoff.handleSubmit *)

\* The options of the weekday select: label -> value.
DAYS_OF_WEEK ==
    [Sunday |-> "6", Monday |-> "0", Tuesday |-> "1", Wednesday |-> "2",
     Thursday |-> "3", Friday |-> "4", Saturday |-> "5"]

\* parseInt of a one-digit string.
ParseInt(str) ==
    CASE str = "0" -> 0 [] str = "1" -> 1 [] str = "2" -> 2 [] str = "3" -> 3
      [] str = "4" -> 4 [] str = "5" -> 5 [] str = "6" -> 6 [] str = "7" -> 7

\* const dayOfWeek = selectedDayOfWeek === "7" ? 0 : parseInt(selectedDayOfWeek)
DayOfWeekOf(selectedDayOfWeek) ==
    IF selectedDayOfWeek = "7" THEN 0 ELSE ParseInt(selectedDayOfWeek)

\* .maybeSingle(): the row, no row, or an error when several rows match.
MaybeSingle(rows) ==
    IF Cardinality(rows) = 1 THEN [data |-> CHOOSE r \in rows : TRUE, error |-> FALSE]
    ELSE [data |-> NULL, error |-> Cardinality(rows) > 1]

PatternFor(pat, driver, month, year) ==
    {p \in pat : p.driver_id = driver /\ p.month = month /\ p.year = year}

\* The update or the insert of handleSubmit, with the trigger it fires, as the
\* store executes it: one statement, one transaction.
PatternWrite(pat, sch, rep, existingPattern, driver, month, year, dayOfWeek, taken) ==
    IF existingPattern # NULL
    THEN LET hit == {p \in pat : p.id = existingPattern.id}
             upd == {[p EXCEPT !.day_of_week = dayOfWeek] : p \in hit}
         IN IF hit = {}
            THEN [error |-> FALSE, pat |-> pat, sch |-> sch, rep |-> rep]
            ELSE IF \E n \in upd : ~PatternChecksOk(n)
            THEN [error |-> TRUE, pat |-> pat, sch |-> sch, rep |-> rep]
            ELSE LET NEWROW == CHOOSE n \in upd : TRUE
                     out == create_monthly_dayoff_schedules(NEWROW, sch, rep, taken)
                 IN [error |-> FALSE, pat |-> (pat \ hit) \cup upd,
                     sch |-> out.schedules, rep |-> out.replacements]
    ELSE LET NEWROW == [id |-> FreshId(<<"pattern", driver, month, year>>, taken),
                        driver_id |-> driver, month |-> month, year |-> year,
                        day_of_week |-> dayOfWeek]
         IN IF ~PatternChecksOk(NEWROW) \/ ~PatternUniqueOk(pat, NEWROW)
            THEN [error |-> TRUE, pat |-> pat, sch |-> sch, rep |-> rep]
            ELSE LET out == create_monthly_dayoff_schedules(NEWROW, sch, rep, taken)
                 IN [error |-> FALSE, pat |-> pat \cup {NEWROW},
                     sch |-> out.schedules, rep |-> out.replacements]

Done(s, message) ==
    /\ pc' = [pc EXCEPT ![s] = "idle"]
    /\ loc' = [loc EXCEPT ![s] = [op |-> "none"]]
    /\ toast' = [toast EXCEPT ![s] = message]

\* A month or year select without a value ("" in the form, parsed to no number).
NoNumber == 0

\* handleSubmit with the validation of the month and the year left out.
handleSubmit_fetch_HalfValidated(s, selectedDriver, selectedMonth, selectedYear, selectedDayOfWeek) ==
    /\ pc[s] = "idle"
    /\ UNCHANGED <<driver_monthly_dayoff, schedules, replacements, overtime_records,
                   trigger_variant, tz>>
    /\ IF selectedDriver = "" \/ selectedDayOfWeek = ""
       THEN Done(s, "Please fill in all fields.")
       ELSE LET got == MaybeSingle(PatternFor(driver_monthly_dayoff, selectedDriver,
                                              selectedMonth, selectedYear))
            IN IF got.error
               THEN Done(s, "Error setting monthly day-off")
               ELSE /\ pc' = [pc EXCEPT ![s] = "submit_write"]
                    /\ loc' = [loc EXCEPT ![s] =
                                 [op |-> "submit", selectedDriver |-> selectedDriver,
                                  selectedMonth |-> selectedMonth,
                                  selectedYear |-> selectedYear,
                                  selectedDayOfWeek |-> selectedDayOfWeek,
                                  existingPattern |-> got.data]]
                    /\ toast' = [toast EXCEPT ![s] = "none"]

\* handleSubmit up to its first await: the validation and the read of the
\* existing pattern.
handleSubmit_fetch(s, selectedDriver, selectedMonth, selectedYear, selectedDayOfWeek) ==
    /\ pc[s] = "idle"
    /\ UNCHANGED <<driver_monthly_dayoff, schedules, replacements, overtime_records,
                   trigger_variant, tz>>
    /\ IF \/ selectedDriver = "" \/ selectedMonth = NoNumber
          \/ selectedYear = NoNumber \/ selectedDayOfWeek = ""
       THEN Done(s, "Please fill in all fields.")
       ELSE LET got == MaybeSingle(PatternFor(driver_monthly_dayoff, selectedDriver,
                                              selectedMonth, selectedYear))
            IN IF got.error
               THEN Done(s, "Error setting monthly day-off")
               ELSE /\ pc' = [pc EXCEPT ![s] = "submit_write"]
                    /\ loc' = [loc EXCEPT ![s] =
                                 [op |-> "submit", selectedDriver |-> selectedDriver,
                                  selectedMonth |-> selectedMonth,
                                  selectedYear |-> selectedYear,
                                  selectedDayOfWeek |-> selectedDayOfWeek,
                                  existingPattern |-> got.data]]
                    /\ toast' = [toast EXCEPT ![s] = "none"]

\* handleSubmit from `await operation` to its end.
handleSubmit_write(s) ==
    /\ pc[s] = "submit_write"
    /\ LET l == loc[s]
           out == PatternWrite(driver_monthly_dayoff, schedules, replacements,
                               l.existingPattern, l.selectedDriver, l.selectedMonth,
                               l.selectedYear, DayOfWeekOf(l.selectedDayOfWeek),
                               TakenIds(driver_monthly_dayoff, schedules, replacements,
                                        overtime_records))
       IN /\ driver_monthly_dayoff' = out.pat
          /\ schedules' = out.sch
          /\ replacements' = out.rep
          /\ Done(s, IF out.error THEN "Error setting monthly day-off"
                     ELSE "Monthly day-off pattern has been set successfully.")
    /\ UNCHANGED <<overtime_records, trigger_variant, tz>>

----------------------------------------------------------------------------
(* Delete Pattern: DriverMonthlyDayoffList.handleDelete *)

\* The rows fetchPatterns loads into the local list.
FetchedPatterns ==
    {p \in driver_monthly_dayoff : p.month = PageMonth /\ p.year = PageYear}

\* The component's local list `patterns`: what fetchPatterns loaded for the
\* page's month, kept current by the realtime subscription, unless a failed
\* delete left the list as loc[s] holds it.
LocalPatterns(s) ==
    IF loc[s].op = "list"
    THEN loc[s].patterns
    ELSE FetchedPatterns

\* handleDelete up to the read of the pattern (.single()) and the optimistic
\* removal from the local list.
handleDelete_fetch(s, patternId) ==
    /\ pc[s] = "idle"
    /\ UNCHANGED <<driver_monthly_dayoff, schedules, replacements, overtime_records,
                   trigger_variant, tz>>
    /\ LET hit == {p \in driver_monthly_dayoff : p.id = patternId}
       IN IF Cardinality(hit) # 1
          THEN Done(s, "Failed to delete day-off pattern.")
          ELSE /\ pc' = [pc EXCEPT ![s] = "delete_schedules"]
               /\ loc' = [loc EXCEPT ![s] =
                            [op |-> "delete", patternId |-> patternId,
                             pattern |-> CHOOSE p \in hit : TRUE,
                             patterns |-> {p \in LocalPatterns(s) : p.id # patternId}]]
               /\ toast' = [toast EXCEPT ![s] = "none"]

\* The rows the schedules delete of handleDelete matches.
DeleteRange(sch, pattern, offset) ==
    LET startDate == ToISODate(make_date(pattern.year, pattern.month, 1), offset)
        endDate == ToISODate(LastDayOfMonth(pattern.year, pattern.month), offset)
    IN {r \in sch : /\ r.driver_id = pattern.driver_id
                    /\ r.is_day_off = TRUE
                    /\ r.date >= startDate /\ r.date <= endDate}

\* handleDelete: the delete of the month's day-off schedules.
handleDelete_schedules(s) ==
    /\ pc[s] = "delete_schedules"
    /\ LET out == DeleteSchedules(schedules, replacements,
                                  DeleteRange(schedules, loc[s].pattern, tz))
       IN /\ schedules' = out.schedules
          /\ replacements' = out.replacements
    /\ pc' = [pc EXCEPT ![s] = "delete_pattern"]
    /\ UNCHANGED <<driver_monthly_dayoff, overtime_records, trigger_variant, tz,
                   loc, toast>>

\* handleDelete: the delete of the pattern row, to the end.
handleDelete_pattern(s) ==
    /\ pc[s] = "delete_pattern"
    /\ driver_monthly_dayoff' =
           {p \in driver_monthly_dayoff : p.id # loc[s].patternId}
    /\ Done(s, "Day-off pattern and associated schedules have been deleted.")
    /\ UNCHANGED <<schedules, replacements, overtime_records, trigger_variant, tz>>

\* handleDelete when the store answers the schedules delete with an error:
\* throw scheduleError, the catch block's toast, the local list as it is.
handleDelete_schedules_error(s) ==
    /\ pc[s] = "delete_schedules"
    /\ pc' = [pc EXCEPT ![s] = "idle"]
    /\ loc' = [loc EXCEPT ![s] = [op |-> "list", patterns |-> loc[s].patterns]]
    /\ toast' = [toast EXCEPT ![s] = "Failed to delete day-off pattern."]
    /\ UNCHANGED <<driver_monthly_dayoff, schedules, replacements, overtime_records,
                   trigger_variant, tz>>

\* handleDelete when the store answers the pattern delete with an error:
\* fetchPatterns(), throw deleteError, the catch block's toast.
handleDelete_pattern_error(s) ==
    /\ pc[s] = "delete_pattern"
    /\ pc' = [pc EXCEPT ![s] = "idle"]
    /\ loc' = [loc EXCEPT ![s] = [op |-> "list", patterns |-> FetchedPatterns]]
    /\ toast' = [toast EXCEPT ![s] = "Failed to delete day-off pattern."]
    /\ UNCHANGED <<driver_monthly_dayoff, schedules, replacements, overtime_records,
                   trigger_variant, tz>>

\* fetchPatterns as the effect runs it when the component mounts again.
fetchPatterns(s) ==
    /\ pc[s] = "idle"
    /\ loc[s].op = "list"
    /\ loc' = [loc EXCEPT ![s] = [op |-> "list", patterns |-> FetchedPatterns]]
    /\ UNCHANGED <<driver_monthly_dayoff, schedules, replacements, overtime_records,
                   trigger_variant, tz, pc, toast>>

----------------------------------------------------------------------------
(* Mark day-off / annual leave: DayScheduleDialog.handleScheduleUpdate *)

ScheduleFor(sch, driver, date) ==
    {r \in sch : r.driver_id = driver /\ r.date = date}

\* The day-off and annual-leave buttons: each is disabled while the dialog's
\* schedule of the driver carries the other flag.
ButtonEnabled(view, type) ==
    IF view = NULL THEN TRUE
    ELSE IF type = "day_off" THEN ~view.is_annual_leave ELSE ~view.is_day_off

\* handleScheduleUpdate up to the read of the existing schedule.  `day` is the
\* calendar day of the dialog; `view` is the driver's schedule the dialog shows.
handleScheduleUpdate_read(s, driverId, type, day, view) ==
    /\ pc[s] = "idle"
    /\ ButtonEnabled(view, type)
    /\ LET dateStr == ToISODate(day, tz)
           got == MaybeSingle(ScheduleFor(schedules, driverId, dateStr))
       IN loc' = [loc EXCEPT ![s] =
                    [op |-> "mark", driverId |-> driverId, type |-> type,
                     dateStr |-> dateStr, existingSchedule |-> got.data]]
    /\ pc' = [pc EXCEPT ![s] = "mark_write"]
    /\ toast' = [toast EXCEPT ![s] = "none"]
    /\ UNCHANGED <<driver_monthly_dayoff, schedules, replacements, overtime_records,
                   trigger_variant, tz>>

\* The update or the insert of handleScheduleUpdate as the store executes it;
\* the handler reads no error of either.
ScheduleWrite(sch, existingSchedule, driverId, dateStr, type, taken) ==
    IF existingSchedule # NULL
    THEN {IF r.id = existingSchedule.id
             THEN [r EXCEPT
                     !.is_day_off = IF type = "day_off"
                                       THEN ~existingSchedule.is_day_off ELSE FALSE,
                     !.is_annual_leave = IF type = "annual_leave"
                                            THEN ~existingSchedule.is_annual_leave
                                            ELSE FALSE]
             ELSE r : r \in sch}
    ELSE IF ScheduleUniqueOk(sch, driverId, dateStr)
         THEN sch \cup {[id |-> FreshId(<<"schedule", driverId, dateStr>>, taken),
                         driver_id |-> driverId, date |-> dateStr,
                         is_day_off |-> (type = "day_off"),
                         is_annual_leave |-> (type = "annual_leave")]}
         ELSE sch

\* handleScheduleUpdate from its write to the end.
handleScheduleUpdate_write(s) ==
    /\ pc[s] = "mark_write"
    /\ schedules' = ScheduleWrite(schedules, loc[s].existingSchedule, loc[s].driverId,
                                  loc[s].dateStr, loc[s].type,
                                  TakenIds(driver_monthly_dayoff, schedules,
                                           replacements, overtime_records))
    /\ Done(s, "Driver schedule has been updated successfully.")
    /\ UNCHANGED <<driver_monthly_dayoff, replacements, overtime_records,
                   trigger_variant, tz>>

----------------------------------------------------------------------------
(* Replacement / overtime ledger: DayScheduleDialog.handleAssignReplacement, *)
(* handleUpdateReplacement, and OvertimeForm.onSubmit                        *)

\* calculateOTHours: a replaced shift always counts 8 hours.
ReplacementHours == 8
\* ot_rate of a replacement record, 1.5, in hundredths (DECIMAL(3,2)).
ReplacementRate == 150

\* overtime_records: CHECK (ot_type IN ('replacement', 'extension', 'special')).
OtTypeCheckOk(ot_type) == ot_type \in {"replacement", "extension", "special"}

\* replacements.schedule_id REFERENCES schedules(id).
ReplacementFkOk(sch, scheduleId) == \E r \in sch : r.id = scheduleId

\* handleAssignReplacement: the insert of the replacement row.  The handler
\* reads no error of it.
handleAssignReplacement_insert(s, scheduleId, replacementDriverId, driverId, shiftId, day) ==
    /\ pc[s] = "idle"
    /\ replacements' =
           IF ReplacementFkOk(schedules, scheduleId)
           THEN replacements \cup
                  {[id |-> FreshId(<<"replacement", scheduleId, shiftId>>,
                                   TakenIds(driver_monthly_dayoff, schedules,
                                            replacements, overtime_records)),
                    schedule_id |-> scheduleId,
                    replacement_driver_id |-> replacementDriverId,
                    shift_id |-> shiftId]}
           ELSE replacements
    /\ pc' = [pc EXCEPT ![s] = "assign_ot_select"]
    /\ loc' = [loc EXCEPT ![s] =
                 [op |-> "assign", scheduleId |-> scheduleId,
                  replacementDriverId |-> replacementDriverId,
                  driverId |-> driverId, shiftId |-> shiftId,
                  dateStr |-> ToISODate(day, tz)]]
    /\ toast' = [toast EXCEPT ![s] = "none"]
    /\ UNCHANGED <<driver_monthly_dayoff, schedules, overtime_records,
                   trigger_variant, tz>>

\* The overtime record both handlers look up: .eq("driver_id"), .eq("date"),
\* .maybeSingle().
ExistingOT(ot, driver, dateStr) ==
    MaybeSingle({o \in ot : o.driver_id = driver /\ o.date = dateStr}).data

\* handleAssignReplacement: the read of the driver's overtime record.
handleAssignReplacement_select(s) ==
    /\ pc[s] = "assign_ot_select"
    /\ loc' = [loc EXCEPT ![s] =
                 @ @@ [existingOT |-> ExistingOT(overtime_records,
                                                 loc[s].replacementDriverId,
                                                 loc[s].dateStr)]]
    /\ pc' = [pc EXCEPT ![s] = "assign_ot_write"]
    /\ UNCHANGED <<driver_monthly_dayoff, schedules, replacements, overtime_records,
                   trigger_variant, tz, toast>>

\* AccrueOvertime with the update writing the shift's hours over the record's.
AccrueOvertime_Overwrite(ot, existingOT, driver, dateStr, taken) ==
    IF existingOT # NULL
    THEN {IF o.id = existingOT.id
             THEN [o EXCEPT !.hours = ReplacementHours]
             ELSE o : o \in ot}
    ELSE ot \cup {[id |-> FreshId(<<"overtime", driver, dateStr>>, taken),
                   driver_id |-> driver, date |-> dateStr,
                   hours |-> ReplacementHours, ot_type |-> "replacement",
                   ot_rate |-> ReplacementRate]}

\* The update or the insert that accrues a shift's overtime, in both handlers.
AccrueOvertime(ot, existingOT, driver, dateStr, taken) ==
    IF existingOT # NULL
    THEN {IF o.id = existingOT.id
             THEN [o EXCEPT !.hours = existingOT.hours + ReplacementHours]
             ELSE o : o \in ot}
    ELSE ot \cup {[id |-> FreshId(<<"overtime", driver, dateStr>>, taken),
                   driver_id |-> driver, date |-> dateStr,
                   hours |-> ReplacementHours, ot_type |-> "replacement",
                   ot_rate |-> ReplacementRate]}

\* handleAssignReplacement from the overtime write to its end.
handleAssignReplacement_write(s) ==
    /\ pc[s] = "assign_ot_write"
    /\ overtime_records' =
           AccrueOvertime(overtime_records, loc[s].existingOT,
                          loc[s].replacementDriverId, loc[s].dateStr,
                          TakenIds(driver_monthly_dayoff, schedules, replacements,
                                   overtime_records))
    /\ Done(s, "Replacement driver has been assigned for the shift.")
    /\ UNCHANGED <<driver_monthly_dayoff, schedules, replacements, trigger_variant, tz>>

\* handleUpdateReplacement up to the read of the current replacement (.single()).
handleUpdateReplacement_fetch(s, replacementId, newDriverId, driverId, scheduleId, day) ==
    /\ pc[s] = "idle"
    /\ UNCHANGED <<driver_monthly_dayoff, schedules, replacements, overtime_records,
                   trigger_variant, tz>>
    /\ LET hit == {r \in replacements : r.id = replacementId}
       IN IF Cardinality(hit) # 1
          THEN Done(s, "There was a problem updating the replacement.")
          ELSE /\ pc' = [pc EXCEPT ![s] = "update_replacement"]
               /\ loc' = [loc EXCEPT ![s] =
                            [op |-> "update", replacementId |-> replacementId,
                             newDriverId |-> newDriverId, driverId |-> driverId,
                             scheduleId |-> scheduleId,
                             dateStr |-> ToISODate(day, tz),
                             oldReplacement |-> CHOOSE r \in hit : TRUE]]
               /\ toast' = [toast EXCEPT ![s] = "none"]

\* handleUpdateReplacement: the update of the replacement row.
handleUpdateReplacement_update(s) ==
    /\ pc[s] = "update_replacement"
    /\ replacements' =
           {IF r.id = loc[s].replacementId
               THEN [r EXCEPT !.replacement_driver_id = loc[s].newDriverId]
               ELSE r : r \in replacements}
    /\ pc' = [pc EXCEPT ![s] = "update_ot_delete"]
    /\ UNCHANGED <<driver_monthly_dayoff, schedules, overtime_records,
                   trigger_variant, tz, loc, toast>>

\* "Remove OT record for old driver": the rows the delete matches.
OldDriverOT(ot, oldDriver, dateStr) ==
    {o \in ot : /\ o.driver_id = oldDriver
                /\ o.date = dateStr
                /\ o.ot_type = "replacement"}

\* handleUpdateReplacement: the delete of the old driver's overtime.
handleUpdateReplacement_delete(s) ==
    /\ pc[s] = "update_ot_delete"
    /\ overtime_records' =
           overtime_records \ OldDriverOT(overtime_records,
                                          loc[s].oldReplacement.replacement_driver_id,
                                          loc[s].dateStr)
    /\ pc' = [pc EXCEPT ![s] = "update_ot_select"]
    /\ UNCHANGED <<driver_monthly_dayoff, schedules, replacements,
                   trigger_variant, tz, loc, toast>>

\* handleUpdateReplacement: the read of the new driver's overtime record.
handleUpdateReplacement_select(s) ==
    /\ pc[s] = "update_ot_select"
    /\ loc' = [loc EXCEPT ![s] =
                 @ @@ [existingOT |-> ExistingOT(overtime_records,
                                                 loc[s].newDriverId, loc[s].dateStr)]]
    /\ pc' = [pc EXCEPT ![s] = "update_ot_write"]
    /\ UNCHANGED <<driver_monthly_dayoff, schedules, replacements, overtime_records,
                   trigger_variant, tz, toast>>

\* handleUpdateReplacement from the overtime write to its end.
handleUpdateReplacement_write(s) ==
    /\ pc[s] = "update_ot_write"
    /\ overtime_records' =
           AccrueOvertime(overtime_records, loc[s].existingOT, loc[s].newDriverId,
                          loc[s].dateStr,
                          TakenIds(driver_monthly_dayoff, schedules, replacements,
                                   overtime_records))
    /\ Done(s, "Replacement driver has been updated successfully.")
    /\ UNCHANGED <<driver_monthly_dayoff, schedules, replacements, trigger_variant, tz>>

\* OvertimeForm.getOTRate, in hundredths.
getOTRate(type) ==
    CASE type = "normal" -> 150
      [] type \in {"holiday", "day_off", "night"} -> 200
      [] OTHER -> 100

\* OvertimeForm.onSubmit: one insert; its error is thrown and toasted.
OvertimeForm_onSubmit(s, driver_id, day, hours, ot_type) ==
    /\ pc[s] = "idle"
    /\ LET dateStr == ToISODate(day, tz)
       IN IF OtTypeCheckOk(ot_type)
          THEN /\ overtime_records' = overtime_records \cup
                     {[id |-> FreshId(<<"overtime", driver_id, dateStr>>,
                                      TakenIds(driver_monthly_dayoff, schedules,
                                               replacements, overtime_records)),
                       driver_id |-> driver_id, date |-> dateStr, hours |-> hours,
                       ot_type |-> ot_type, ot_rate |-> getOTRate(ot_type)]}
               /\ Done(s, "Overtime has been recorded successfully.")
          ELSE /\ UNCHANGED overtime_records
               /\ Done(s, "There was a problem recording the overtime.")
    /\ UNCHANGED <<driver_monthly_dayoff, schedules, replacements, trigger_variant, tz>>

----------------------------------------------------------------------------
(* Specifications of the pattern expander *)

\* The weekday labels the model's users pick in the Set Pattern form.
FormLabels == {"Thursday", "Friday"}
FormDays == {DAYS_OF_WEEK[l] : l \in FormLabels} \cup {""}
FormDrivers == PatternDrivers \cup {""}
\* The calendar days whose dialog the model's users open.
DialogDays == {LastDayOfMonth(PageYear, PageMonth)}
MarkTypes == {"day_off", "annual_leave"}
\* The browser time zones: UTC and Asia/Bangkok.
BrowserOffsets == {0, BangkokOffset}
TriggerVariants == {"clearing", "plain"}

Init ==
    /\ driver_monthly_dayoff = {}
    /\ schedules = {}
    /\ replacements = {}
    /\ overtime_records = {}
    /\ trigger_variant \in TriggerVariants
    /\ tz \in BrowserOffsets
    /\ pc = [s \in Sessions |-> "idle"]
    /\ loc = [s \in Sessions |-> [op |-> "none"]]
    /\ toast = [s \in Sessions |-> "none"]

\* The driver's schedule as a dialog that has just been refreshed shows it.
FreshView(driverId, day) ==
    MaybeSingle(ScheduleFor(schedules, driverId, ToISODate(day, tz))).data

\* The schedules a dialog may still show when other sessions write meanwhile.
StaleViews ==
    {NULL} \cup [is_day_off : BOOLEAN, is_annual_leave : BOOLEAN]

SetPattern(s, drivers, days) ==
    \/ \E d \in drivers, w \in days :
           handleSubmit_fetch(s, d, PageMonth, PageYear, w)
    \/ handleSubmit_write(s)

DeletePattern(s) ==
    \/ \E p \in LocalPatterns(s) : handleDelete_fetch(s, p.id)
    \/ handleDelete_schedules(s)
    \/ handleDelete_pattern(s)

MarkFresh(s, drivers) ==
    \/ \E d \in drivers, t \in MarkTypes, day \in DialogDays :
           handleScheduleUpdate_read(s, d, t, day, FreshView(d, day))
    \/ handleScheduleUpdate_write(s)

MarkStale(s, drivers) ==
    \/ \E d \in drivers, t \in MarkTypes, day \in DialogDays, v \in StaleViews :
           handleScheduleUpdate_read(s, d, t, day, v)
    \/ handleScheduleUpdate_write(s)

\* One UI session: every handler runs to its end before the next starts.
Next ==
    \/ SetPattern("s1", FormDrivers, FormDays)
    \/ DeletePattern("s1")
    \/ MarkFresh("s1", PatternDrivers)

Spec == Init /\ [][Next]_vars

\* Several UI sessions working on one driver, their handlers interleaved at
\* every await.
NextConc ==
    \E s \in Sessions :
        \/ SetPattern(s, {"d1"}, FormDays \ {""})
        \/ DeletePattern(s)
        \/ MarkStale(s, {"d1"})

SpecConc == Init /\ [][NextConc]_vars

----------------------------------------------------------------------------
(* Specifications of the replacement / overtime ledger *)

\* hours of an overtime record that is not a replacement record.
OtherHours == 2

\* getAvailableDrivers: the drivers the dialog's schedules show neither on a
\* day off nor on annual leave.
getAvailableDrivers(sch, dateStr) ==
    {d \in Drivers :
        LET schedule == MaybeSingle(ScheduleFor(sch, d, dateStr)).data
        IN schedule = NULL \/ (~schedule.is_day_off /\ ~schedule.is_annual_leave)}

\* The absent drivers' schedules the dialog lists for replacement.
AbsentSchedules(sch, dateStr) ==
    {r \in sch : r.date = dateStr /\ (r.is_day_off \/ r.is_annual_leave)}

\* schedule.replacements.find(r => r.shift_id === shift.id)
ReplacementOf(rep, scheduleId, shiftId) ==
    {r \in rep : r.schedule_id = scheduleId /\ r.shift_id = shiftId}

\* The stores the ledger starts from: driver d1 marked day off on the dialog's
\* day, driver d2 marked on annual leave or not.
AbsentStores(offset) ==
    LET dateStr == ToISODate(CHOOSE day \in DialogDays : TRUE, offset)
        one == ScheduleWrite({}, NULL, "d1", dateStr, "day_off", {})
        two == ScheduleWrite(one, NULL, "d2", dateStr, "annual_leave", {})
    IN {one, two}

\* An overtime record of another ot_type for driver d3 on the dialog's day.
OtherRecord(offset) ==
    LET dateStr == ToISODate(CHOOSE day \in DialogDays : TRUE, offset)
    IN [id |-> FreshId(<<"overtime", "d3", dateStr>>, {}),
        driver_id |-> "d3", date |-> dateStr, hours |-> OtherHours,
        ot_type |-> "extension", ot_rate |-> ReplacementRate]

InitAssign ==
    /\ driver_monthly_dayoff = {}
    /\ trigger_variant \in TriggerVariants
    /\ tz \in BrowserOffsets
    /\ schedules \in AbsentStores(tz)
    /\ replacements = {}
    /\ overtime_records = {}
    /\ pc = [s \in Sessions |-> "idle"]
    /\ loc = [s \in Sessions |-> [op |-> "none"]]
    /\ toast = [s \in Sessions |-> "none"]

InitLedger ==
    /\ driver_monthly_dayoff = {}
    /\ trigger_variant \in TriggerVariants
    /\ tz \in BrowserOffsets
    /\ schedules \in AbsentStores(tz)
    /\ replacements = {}
    /\ overtime_records \in {{}, {OtherRecord(tz)}}
    /\ pc = [s \in Sessions |-> "idle"]
    /\ loc = [s \in Sessions |-> [op |-> "none"]]
    /\ toast = [s \in Sessions |-> "none"]

\* The hours of one record up to which the model follows the ledger.
MaxOvertime == 24

OvertimeInBound == \A o \in overtime_records : o.hours < MaxOvertime

\* Assign Replacement from a dialog that shows the store as it is.
AssignReplacement(s) ==
    \/ \E day \in DialogDays, shift \in Shifts, value \in Drivers :
         \E schedule \in AbsentSchedules(schedules, ToISODate(day, tz)) :
           /\ OvertimeInBound
           /\ value \in getAvailableDrivers(schedules, ToISODate(day, tz))
                           \ {schedule.driver_id}
           /\ ReplacementOf(replacements, schedule.id, shift) = {}
           /\ handleAssignReplacement_insert(s, schedule.id, value,
                                             schedule.driver_id, shift, day)
    \/ handleAssignReplacement_select(s)
    \/ handleAssignReplacement_write(s)

\* Update Replacement from a dialog that shows the store as it is.
UpdateReplacement(s) ==
    \/ \E day \in DialogDays, shift \in Shifts, value \in Drivers :
         \E schedule \in AbsentSchedules(schedules, ToISODate(day, tz)) :
           \E replacement \in ReplacementOf(replacements, schedule.id, shift) :
             /\ OvertimeInBound
             /\ value \in getAvailableDrivers(schedules, ToISODate(day, tz))
                             \ {schedule.driver_id}
             /\ value # replacement.replacement_driver_id
             /\ handleUpdateReplacement_fetch(s, replacement.id, value,
                                              schedule.driver_id, schedule.id, day)
    \/ handleUpdateReplacement_update(s)
    \/ handleUpdateReplacement_delete(s)
    \/ handleUpdateReplacement_select(s)
    \/ handleUpdateReplacement_write(s)

FormTypes == {"normal", "holiday", "day_off", "night"}

RecordOvertime(s) ==
    \E d \in Drivers \ {"d1"}, day \in DialogDays, t \in FormTypes :
        OvertimeForm_onSubmit(s, d, day, OtherHours, t)

\* One UI session that only assigns replacements.
NextAssign == AssignReplacement("s1")

SpecAssign == InitAssign /\ [][NextAssign]_vars

\* One UI session on the ledger: every handler runs to its end before the next
\* starts.
NextLedger ==
    \/ AssignReplacement("s1")
    \/ UpdateReplacement("s1")
    \/ RecordOvertime("s1")

SpecLedger == InitLedger /\ [][NextLedger]_vars

----------------------------------------------------------------------------
(* Properties of the pattern expander *)

MonthDates(y, m) == make_date(y, m, 1)..LastDayOfMonth(y, m)

\* The dates of the month that fall on weekday w, 0 = Sunday .. 6 = Saturday.
WeekdayDates(y, m, w) == {d \in MonthDates(y, m) : DOW(d) = w}

\* The number of a weekday name in the 0 = Sunday .. 6 = Saturday convention.
WeekdayNumber ==
    [Sunday |-> 0, Monday |-> 1, Tuesday |-> 2, Wednesday |-> 3,
     Thursday |-> 4, Friday |-> 5, Saturday |-> 6]

\* The weekday the user picked: the label of the selected option.
PickedWeekday(selectedDayOfWeek) ==
    WeekdayNumber[CHOOSE l \in DOMAIN DAYS_OF_WEEK :
                      DAYS_OF_WEEK[l] = selectedDayOfWeek]

DayOffRows(sch, driver, y, m) ==
    MonthDayOffRows(sch, driver, make_date(y, m, 1), LastDayOfMonth(y, m))

DayOffDates(sch, driver, y, m) == {r.date : r \in DayOffRows(sch, driver, y, m)}

MonthRows(sch, driver, y, m) ==
    {r \in sch : r.driver_id = driver /\ r.date \in MonthDates(y, m)}

SetPatternSucceeded == "Monthly day-off pattern has been set successfully."

\* Session s takes the step that completes a Set Pattern which wrote a pattern
\* row.
SetPatternCompletes(s) ==
    /\ pc[s] = "submit_write"
    /\ pc'[s] = "idle"
    /\ toast'[s] = SetPatternSucceeded
    /\ \E p \in driver_monthly_dayoff' :
           /\ p.driver_id = loc[s].selectedDriver
           /\ p.month = loc[s].selectedMonth
           /\ p.year = loc[s].selectedYear
           /\ p.day_of_week = DayOfWeekOf(loc[s].selectedDayOfWeek)

\* C1: after Set Pattern(driver, month, year, weekday) completes, the driver has
\* as many day-off rows dated in the month as the month has dates on the weekday
\* that was chosen (5 for Thursday in February 2024).
C1_RowCountIsWeekdayCount ==
    [][\A s \in Sessions :
          SetPatternCompletes(s) =>
              Cardinality(DayOffRows(schedules', loc[s].selectedDriver,
                                     loc[s].selectedYear, loc[s].selectedMonth))
                = Cardinality(WeekdayDates(loc[s].selectedYear, loc[s].selectedMonth,
                                           PickedWeekday(loc[s].selectedDayOfWeek)))
      ]_vars

\* C2: after Set Pattern(driver, month, year, day_of_week) on a driver without
\* schedule rows in the month, the driver's day-off rows of the month are on
\* exactly the dates of the month whose weekday (0 = Sunday .. 6 = Saturday) is
\* day_of_week, one row a date, and no row of the driver lies outside them.
C2_ExpansionOnEmptyMonth ==
    [][\A s \in Sessions :
          (/\ SetPatternCompletes(s)
           /\ MonthRows(schedules, loc[s].selectedDriver,
                        loc[s].selectedYear, loc[s].selectedMonth) = {})
          => LET d == loc[s].selectedDriver
                 y == loc[s].selectedYear
                 m == loc[s].selectedMonth
                 w == DayOfWeekOf(loc[s].selectedDayOfWeek)
             IN /\ DayOffDates(schedules', d, y, m) = WeekdayDates(y, m, w)
                /\ Cardinality(DayOffRows(schedules', d, y, m))
                     = Cardinality(WeekdayDates(y, m, w))
                /\ MonthRows(schedules', d, y, m) = DayOffRows(schedules', d, y, m)
                /\ schedules' \ MonthRows(schedules', d, y, m) = schedules
      ]_vars

\* C2 witness: a Set Pattern for day_of_week 4 has completed and left the driver
\* day-off on the five Thursdays of the month and on no other date.
C2_Witness ==
    /\ toast["s1"] = SetPatternSucceeded
    /\ DayOffDates(schedules, "d1", PageYear, PageMonth)
         = WeekdayDates(PageYear, PageMonth, 4)
    /\ MonthRows(schedules, "d1", PageYear, PageMonth)
         = DayOffRows(schedules, "d1", PageYear, PageMonth)
    /\ \E p \in driver_monthly_dayoff : p.driver_id = "d1" /\ p.day_of_week = 4

\* handleSubmit run from its read to its end on the store (pat, sch, rep).
SetPatternOn(pat, sch, rep, driver, month, year, selectedDayOfWeek) ==
    PatternWrite(pat, sch, rep,
                 MaybeSingle(PatternFor(pat, driver, month, year)).data,
                 driver, month, year, DayOfWeekOf(selectedDayOfWeek),
                 TakenIds(pat, sch, rep, overtime_records))

\* C3: a second Set Pattern with the same (driver, month, year, weekday) leaves
\* the dates of the driver's day-off rows of the month, and their number, as the
\* first left them: from every reachable store, and at every second write that
\* the program makes on the store the first one left.
C3_SecondSetPatternChangesNothing ==
    /\ [](\A d \in PatternDrivers, w \in FormDays \ {""} :
            LET once == SetPatternOn(driver_monthly_dayoff, schedules, replacements,
                                     d, PageMonth, PageYear, w)
                twice == SetPatternOn(once.pat, once.sch, once.rep,
                                      d, PageMonth, PageYear, w)
            IN ~once.error =>
                 /\ ~twice.error
                 /\ twice.pat = once.pat
                 /\ DayOffDates(twice.sch, d, PageYear, PageMonth)
                      = DayOffDates(once.sch, d, PageYear, PageMonth)
                 /\ Cardinality(DayOffRows(twice.sch, d, PageYear, PageMonth))
                      = Cardinality(DayOffRows(once.sch, d, PageYear, PageMonth)))
    /\ [][\A s \in Sessions :
            (/\ SetPatternCompletes(s)
             /\ loc[s].existingPattern # NULL
             /\ loc[s].existingPattern.day_of_week
                  = DayOfWeekOf(loc[s].selectedDayOfWeek)
             /\ DayOffDates(schedules, loc[s].selectedDriver, loc[s].selectedYear,
                            loc[s].selectedMonth)
                  = WeekdayDates(loc[s].selectedYear, loc[s].selectedMonth,
                                 DayOfWeekOf(loc[s].selectedDayOfWeek)))
            => /\ DayOffDates(schedules', loc[s].selectedDriver, loc[s].selectedYear,
                              loc[s].selectedMonth)
                    = DayOffDates(schedules, loc[s].selectedDriver,
                                  loc[s].selectedYear, loc[s].selectedMonth)
               /\ Cardinality(DayOffRows(schedules', loc[s].selectedDriver,
                                         loc[s].selectedYear, loc[s].selectedMonth))
                    = Cardinality(DayOffRows(schedules, loc[s].selectedDriver,
                                             loc[s].selectedYear, loc[s].selectedMonth))
       ]_vars

\* C3 witness: a second Set Pattern for the weekday the pattern already has is
\* at its write, on the day-off rows the first one left.
C3_Witness ==
    /\ pc["s1"] = "submit_write"
    /\ loc["s1"].existingPattern # NULL
    /\ loc["s1"].existingPattern \in driver_monthly_dayoff
    /\ loc["s1"].existingPattern.day_of_week = DayOfWeekOf(loc["s1"].selectedDayOfWeek)
    /\ DayOffDates(schedules, loc["s1"].selectedDriver, PageYear, PageMonth)
         = WeekdayDates(PageYear, PageMonth, DayOfWeekOf(loc["s1"].selectedDayOfWeek))

\* Session s takes the step that completes a Delete Pattern.
DeletePatternCompletes(s) ==
    /\ pc[s] = "delete_pattern"
    /\ pc'[s] = "idle"
    /\ toast'[s] = "Day-off pattern and associated schedules have been deleted."

\* C4: after Delete Pattern succeeds for a pattern (driver, month, year), the
\* driver has no day-off row from the first to the last day of the month and
\* no pattern row for (driver, month, year) is left.
C4_DeleteLeavesNoDayOff ==
    [][\A s \in Sessions :
          DeletePatternCompletes(s) =>
              LET p == loc[s].pattern
              IN /\ DayOffRows(schedules', p.driver_id, p.year, p.month) = {}
                 /\ PatternFor(driver_monthly_dayoff', p.driver_id, p.month, p.year) = {}
      ]_vars

ScheduleKeyUnique ==
    \A r1, r2 \in schedules :
        (r1.driver_id = r2.driver_id /\ r1.date = r2.date) => r1 = r2

\* Session s takes the write of a day-off / annual-leave mark.
MarkWrites(s) == pc[s] = "mark_write" /\ pc'[s] = "idle"

\* The flags the mark of session s writes: the toggle of the row it read, or the
\* flags of the row it inserts.
MarkedFlags(s) ==
    LET e == loc[s].existingSchedule
        t == loc[s].type
    IN IF e # NULL
       THEN [is_day_off |-> (t = "day_off" /\ ~e.is_day_off),
             is_annual_leave |-> (t = "annual_leave" /\ ~e.is_annual_leave)]
       ELSE [is_day_off |-> (t = "day_off"),
             is_annual_leave |-> (t = "annual_leave")]

\* C7: whatever Set Pattern expansions and day-off / annual-leave marks of the
\* sessions interleave, at most one schedule row exists for each
\* (driver_id, date), and a write for a (driver_id, date) that has a row updates
\* that row: after a mark's write the row carries the flags the mark wrote.
C7_OneScheduleRowPerDriverDate ==
    /\ []ScheduleKeyUnique
    /\ [][\A s \in Sessions :
            MarkWrites(s) =>
              \A r \in ScheduleFor(schedules, loc[s].driverId, loc[s].dateStr) :
                  [r EXCEPT !.is_day_off = MarkedFlags(s).is_day_off,
                            !.is_annual_leave = MarkedFlags(s).is_annual_leave]
                    \in schedules'
       ]_vars

\* driver_monthly_dayoff holds at most one row for each (driver_id, month, year).
PatternKeyUnique ==
    \A p1, p2 \in driver_monthly_dayoff :
        (p1.driver_id = p2.driver_id /\ p1.month = p2.month /\ p1.year = p2.year)
            => p1 = p2

\* C8: at most one pattern row exists for each (driver_id, month, year); a Set
\* Pattern whose key has a pattern inserts no row, and sets the day_of_week of
\* the row it read when that row is still the key's pattern; a Set Pattern that
\* read no pattern for a key that still has none inserts exactly one row.
C8_OnePatternPerDriverMonth ==
    /\ []PatternKeyUnique
    /\ [][\A s \in Sessions :
            (pc[s] = "submit_write" /\ pc'[s] = "idle") =>
              LET l == loc[s]
                  before == PatternFor(driver_monthly_dayoff, l.selectedDriver,
                                       l.selectedMonth, l.selectedYear)
                  after == PatternFor(driver_monthly_dayoff', l.selectedDriver,
                                      l.selectedMonth, l.selectedYear)
              IN /\ before # {} =>
                       {p.id : p \in driver_monthly_dayoff'}
                         = {p.id : p \in driver_monthly_dayoff}
                 /\ (l.existingPattern # NULL /\ l.existingPattern \in before) =>
                       after = {[l.existingPattern EXCEPT
                                   !.day_of_week = DayOfWeekOf(l.selectedDayOfWeek)]}
                 /\ (l.existingPattern = NULL /\ before = {}) =>
                       /\ Cardinality(after) = 1
                       /\ driver_monthly_dayoff' = driver_monthly_dayoff \cup after
                       /\ \A p \in after :
                              p.day_of_week = DayOfWeekOf(l.selectedDayOfWeek)
       ]_vars

\* C8 witness: two sessions submitted a pattern for one unset key; one insert
\* made the key's row and the unique constraint rejected the other.
C8_Witness ==
    /\ toast["s1"] = SetPatternSucceeded
    /\ toast["s2"] = "Error setting monthly day-off"
    /\ Cardinality(PatternFor(driver_monthly_dayoff, "d1", PageMonth, PageYear)) = 1

----------------------------------------------------------------------------
(* Properties of the replacement / overtime ledger *)

\* The dates the dialog works on.
DialogDates == {ToISODate(day, tz) : day \in DialogDays}

\* The replacement rows that put driver R on a shift of the date.
ShiftsReplacedBy(rep, sch, R, dateStr) ==
    {r \in rep : /\ r.replacement_driver_id = R
                 /\ \E x \in sch : x.id = r.schedule_id /\ x.date = dateStr}

RecordsOf(ot, R, dateStr) == {o \in ot : o.driver_id = R /\ o.date = dateStr}

ReplacementRecordsOf(ot, R, dateStr) ==
    {o \in RecordsOf(ot, R, dateStr) : o.ot_type = "replacement"}

RECURSIVE SumHours(_)
SumHours(records) ==
    IF records = {} THEN 0
    ELSE LET o == CHOOSE x \in records : TRUE
         IN o.hours + SumHours(records \ {o})

AllIdle == \A s \in Sessions : pc[s] = "idle"

\* C5: starting with no overtime record of R on D, after n Assign Replacement
\* operations that each put R on a different shift of D, R has exactly one
\* overtime record on D, of ot_type 'replacement', with hours = 8 * n.
C5_AssignsAccumulateOneRecord ==
    AllIdle =>
        \A R \in Drivers, D \in DialogDates :
            LET n == Cardinality(ShiftsReplacedBy(replacements, schedules, R, D))
                records == RecordsOf(overtime_records, R, D)
            IN IF n = 0
               THEN records = {}
               ELSE \E o \in records :
                      /\ records = {o}
                      /\ o.ot_type = "replacement"
                      /\ o.hours = 8 * n

\* C5 witness: a driver who was assigned to two shifts or more of the day, and
\* an overtime record of 16 hours or more.
C5_Witness ==
    /\ AllIdle
    /\ \E R \in Drivers, D \in DialogDates :
          /\ Cardinality(ShiftsReplacedBy(replacements, schedules, R, D)) >= 2
          /\ \E o \in RecordsOf(overtime_records, R, D) : o.hours >= 16

\* Session s takes the overtime step of Update Replacement that serves the old
\* driver.
UpdateSettlesOldDriver(s) ==
    pc[s] = "update_ot_delete" /\ pc'[s] = "update_ot_select"

\* Session s takes the overtime step of Update Replacement that serves the new
\* driver.
UpdateSettlesNewDriver(s) ==
    pc[s] = "update_ot_write" /\ pc'[s] = "idle"

\* C6: Update Replacement that moves a shift from driver A to driver B lowers
\* A's replacement overtime hours of the date by exactly 8, deleting A's record
\* only when those 8 hours were all it held, and raises B's replacement overtime
\* hours of the date by 8.
C6_UpdateMovesEightHours ==
    [][\A s \in Sessions :
          /\ UpdateSettlesOldDriver(s) =>
               LET A == loc[s].oldReplacement.replacement_driver_id
                   D == loc[s].dateStr
                   before == SumHours(ReplacementRecordsOf(overtime_records, A, D))
                   after == SumHours(ReplacementRecordsOf(overtime_records', A, D))
               IN before >= 8 =>
                    /\ after = before - 8
                    /\ (ReplacementRecordsOf(overtime_records', A, D) = {})
                         <=> (before = 8)
          /\ UpdateSettlesNewDriver(s) =>
               LET B == loc[s].newDriverId
                   D == loc[s].dateStr
               IN SumHours(ReplacementRecordsOf(overtime_records', B, D))
                    = SumHours(ReplacementRecordsOf(overtime_records, B, D)) + 8
      ]_vars

\* Session s takes the overtime write of Assign Replacement.
AssignWritesOvertime(s) ==
    pc[s] = "assign_ot_write" /\ pc'[s] = "idle"

\* C9: Assign Replacement adds its 8 hours to the record of (R, date,
\* 'replacement') when there is one, inserts a record with hours 8, ot_type
\* 'replacement' and ot_rate 1.5 when there is none, and leaves every record of
\* another ot_type as it was.
C9_AssignTouchesOnlyReplacementRecord ==
    [][\A s \in Sessions :
          AssignWritesOvertime(s) =>
            LET R == loc[s].replacementDriverId
                D == loc[s].dateStr
                mine == ReplacementRecordsOf(overtime_records, R, D)
            IN /\ \A o \in overtime_records :
                     o.ot_type # "replacement" => o \in overtime_records'
               /\ IF mine = {}
                  THEN \E n \in overtime_records' \ overtime_records :
                         /\ overtime_records' = overtime_records \cup {n}
                         /\ n.driver_id = R /\ n.date = D /\ n.hours = 8
                         /\ n.ot_type = "replacement" /\ n.ot_rate = 150
                  ELSE \E o \in mine :
                         overtime_records' =
                           (overtime_records \ {o})
                             \cup {[o EXCEPT !.hours = o.hours + 8]}
      ]_vars

----------------------------------------------------------------------------
(* Further properties of schedules and patterns *)

\* C11: whatever day-off marks, annual-leave marks and Set Pattern operations
\* have run, no schedule row has is_day_off and is_annual_leave both true.
C11_FlagsMutuallyExclusive ==
    \A r \in schedules : ~(r.is_day_off /\ r.is_annual_leave)

----------------------------------------------------------------------------
(* The ledger under several sessions: each dialog works on the schedules and *)
(* replacements its page loaded                                              *)

\* The most replacement rows up to which the model follows the sessions.
MaxReplacements == 3

\* SchedulePage loads the month's schedules with their replacements and
\* MonthlyCalendar hands the dialog those of its date.
OpenDialog(s, day) ==
    /\ pc[s] = "idle"
    /\ LET shown == {r \in schedules : r.date = ToISODate(day, tz)}
       IN loc' = [loc EXCEPT ![s] =
                    [op |-> "dialog",
                     schedules |-> shown,
                     replacements |-> {r \in replacements :
                                          r.schedule_id \in {x.id : x \in shown}}]]
    /\ UNCHANGED <<driver_monthly_dayoff, schedules, replacements, overtime_records,
                   trigger_variant, tz, pc, toast>>

\* Session s has a dialog open.
DialogOpen(s) == pc[s] = "idle" /\ loc[s].op = "dialog"

\* The select of a shift in the dialog session s has open: Assign Replacement
\* when the dialog shows no replacement for the shift, Update Replacement when it
\* shows one.
SelectReplacement(s) ==
    \E day \in DialogDays, shift \in Shifts, value \in Drivers :
      /\ DialogOpen(s)
      /\ OvertimeInBound
      /\ Cardinality(replacements) < MaxReplacements
      /\ \E schedule \in AbsentSchedules(loc[s].schedules, ToISODate(day, tz)) :
           /\ value \in getAvailableDrivers(loc[s].schedules, ToISODate(day, tz))
                           \ {schedule.driver_id}
           /\ LET shown == ReplacementOf(loc[s].replacements, schedule.id, shift)
              IN IF shown = {}
                 THEN handleAssignReplacement_insert(s, schedule.id, value,
                                                     schedule.driver_id, shift, day)
                 ELSE \E replacement \in shown :
                        /\ value # replacement.replacement_driver_id
                        /\ handleUpdateReplacement_fetch(s, replacement.id, value,
                                                         schedule.driver_id,
                                                         schedule.id, day)

\* The steps of the two replacement handlers after their first.
ReplacementSteps(s) ==
    \/ handleAssignReplacement_select(s)
    \/ handleAssignReplacement_write(s)
    \/ handleUpdateReplacement_update(s)
    \/ handleUpdateReplacement_delete(s)
    \/ handleUpdateReplacement_select(s)
    \/ handleUpdateReplacement_write(s)

NextReplace ==
    \E s \in Sessions :
        \/ \E day \in DialogDays : OpenDialog(s, day)
        \/ SelectReplacement(s)
        \/ ReplacementSteps(s)

\* Several UI sessions on the ledger, their handlers interleaved at every await.
SpecReplace == InitAssign /\ [][NextReplace]_vars

\* C12: whatever Assign Replacement and Update Replacement operations of the
\* sessions interleave, at most one replacement row exists for each
\* (schedule_id, shift_id).
C12_OneReplacementPerShift ==
    \A r1, r2 \in replacements :
        (r1.schedule_id = r2.schedule_id /\ r1.shift_id = r2.shift_id) => r1 = r2

----------------------------------------------------------------------------
(* Delete Pattern beside rows it must leave alone *)

\* The days whose dialogs the marks of this specification come from: the first
\* and the last day of the page's month.
FrameDays == {make_date(PageYear, PageMonth, 1), LastDayOfMonth(PageYear, PageMonth)}

\* A day-off or annual-leave mark from a dialog that shows the store as it is.
MarkOn(s, drivers, days) ==
    \/ \E d \in drivers, t \in MarkTypes, day \in days :
           handleScheduleUpdate_read(s, d, t, day, FreshView(d, day))
    \/ handleScheduleUpdate_write(s)

\* One UI session that sets and deletes the pattern of driver d1 and marks both
\* drivers on the first and the last day of the month.
NextFrame ==
    \/ SetPattern("s1", {"d1"}, FormDays \ {""})
    \/ DeletePattern("s1")
    \/ MarkOn("s1", PatternDrivers, FrameDays)

SpecFrame == Init /\ [][NextFrame]_vars

\* Session s takes a step of the Delete Pattern flow after its read.
DeletePatternStep(s) ==
    /\ pc[s] \in {"delete_schedules", "delete_pattern"}
    /\ pc'[s] # pc[s]

\* C13: Delete Pattern of a pattern (driver, month, year) removes or changes no
\* schedule row but the driver's day-off rows dated in the month: rows of other
\* drivers, rows of other months and the driver's rows that are no day off stay
\* as they are.
C13_DeleteTouchesOnlyMonthDayOff ==
    [][\A s \in Sessions :
          DeletePatternStep(s) =>
              LET p == loc[s].pattern
              IN \A r \in schedules \ schedules' :
                    /\ r.driver_id = p.driver_id
                    /\ r.is_day_off
                    /\ r.date \in MonthDates(p.year, p.month)
      ]_vars

----------------------------------------------------------------------------
(* Set Pattern submitted with selections missing *)

FormMonths == {NoNumber, PageMonth}
FormYears == {NoNumber, PageYear}

\* One UI session that submits the form with any of its selects filled or empty.
NextValidate ==
    \/ \E d \in FormDrivers, m \in FormMonths, y \in FormYears, w \in FormDays :
           handleSubmit_fetch("s1", d, m, y, w)
    \/ handleSubmit_write("s1")

SpecValidate == Init /\ [][NextValidate]_vars

\* A selection of the form is missing.
SelectionMissing(d, m, y, w) ==
    d = "" \/ m = NoNumber \/ y = NoNumber \/ w = ""

\* C14: a Set Pattern submitted with the driver, the month, the year or the
\* weekday missing ends before its first call to the store, leaves the pattern
\* and schedule rows as they are and shows the validation error.
C14_MissingSelectionTouchesNothing ==
    [][\A s \in Sessions, d \in FormDrivers, m \in FormMonths, y \in FormYears,
          w \in FormDays :
          (SelectionMissing(d, m, y, w) /\ handleSubmit_fetch(s, d, m, y, w)) =>
              /\ pc'[s] = "idle"
              /\ toast'[s] = "Please fill in all fields."
              /\ driver_monthly_dayoff' = driver_monthly_dayoff
              /\ schedules' = schedules
      ]_vars

\* C14 witness: the validation error is on screen while the store holds a
\* pattern and its rows.
C14_Witness ==
    /\ toast["s1"] = "Please fill in all fields."
    /\ pc["s1"] = "idle"
    /\ driver_monthly_dayoff # {}
    /\ schedules # {}

----------------------------------------------------------------------------
(* Replacement handlers whose store writes fail *)

\* The stores this specification starts from: driver d1 has a pattern for the
\* page's month, set with one of the form's weekdays, and the rows the trigger
\* made for it.
PatternStores ==
    {PatternWrite({}, {}, {}, NULL, "d1", PageMonth, PageYear, DayOfWeekOf(w), {}) :
        w \in FormDays \ {""}}

InitAbort ==
    /\ trigger_variant \in TriggerVariants
    /\ tz \in BrowserOffsets
    /\ \E store \in PatternStores :
          /\ driver_monthly_dayoff = store.pat
          /\ schedules = store.sch
    /\ replacements = {}
    /\ overtime_records = {}
    /\ pc = [s \in Sessions |-> "idle"]
    /\ loc = [s \in Sessions |-> [op |-> "none"]]
    /\ toast = [s \in Sessions |-> "none"]

\* Session s1 works in the dialog while session s2 deletes the pattern.
NextAbort ==
    \/ \E day \in DialogDays : OpenDialog("s1", day)
    \/ SelectReplacement("s1")
    \/ ReplacementSteps("s1")
    \/ DeletePattern("s2")

SpecAbort == InitAbort /\ [][NextAbort]_vars

\* Session s takes the first step of Assign Replacement and the store rejects
\* the insert of the replacement row.
AssignInsertFails(s) ==
    /\ pc[s] = "idle"
    /\ loc[s].op = "dialog"
    /\ loc'[s].op = "assign"
    /\ replacements' = replacements

\* C15: when a store write inside Assign Replacement or Update Replacement
\* fails, the operation stops there: the handler ends with the error toast and
\* goes on to no overtime read or write.
C15_FailedWriteStopsOperation ==
    [][\A s \in Sessions :
          AssignInsertFails(s) =>
              /\ pc'[s] = "idle"
              /\ toast'[s] = "There was a problem assigning the replacement."
      ]_vars

----------------------------------------------------------------------------
(* Delete Pattern when the store rejects a delete *)

\* Session s1 deletes patterns, its deletes failing or not; session s2 sets
\* patterns anew.
NextRevert ==
    \/ DeletePattern("s1")
    \/ handleDelete_schedules_error("s1")
    \/ handleDelete_pattern_error("s1")
    \/ fetchPatterns("s1")
    \/ SetPattern("s2", PatternDrivers, FormDays \ {""})

SpecRevert == InitAbort /\ [][NextRevert]_vars

\* Session s's Delete Pattern ends on a delete the store rejected.
DeleteFails(s) ==
    /\ pc[s] \in {"delete_schedules", "delete_pattern"}
    /\ pc'[s] = "idle"
    /\ toast'[s] = "Failed to delete day-off pattern."

\* C16: when a delete issued after the optimistic removal fails, the local
\* list is re-fetched: once the flow has ended, every pattern of the page's
\* month that the store holds is in the session's local list.
C16_FailedDeleteRevertsLocalList ==
    [][\A s \in Sessions :
          DeleteFails(s) =>
              \A p \in driver_monthly_dayoff' :
                  (p.month = PageMonth /\ p.year = PageYear) => p \in loc'[s].patterns
      ]_vars

----------------------------------------------------------------------------
(* Set Pattern and the unique key of driver_monthly_dayoff *)

\* Session s's Set Pattern ends on an insert that UNIQUE(driver_id, month, year)
\* rejected: it read no pattern for the key, and the key has one by now.
UniquenessConflict(s) ==
    /\ pc[s] = "submit_write"
    /\ loc[s].existingPattern = NULL
    /\ PatternFor(driver_monthly_dayoff, loc[s].selectedDriver,
                  loc[s].selectedMonth, loc[s].selectedYear) # {}
    /\ pc'[s] = "idle"
    /\ toast'[s] = "Error setting monthly day-off"

\* C17: Set Pattern never fails with a uniqueness conflict on (driver_id, month,
\* year), two sessions submitting for one unset key included.
C17_SetPatternNeverConflicts ==
    [][\A s \in Sessions : ~UniquenessConflict(s)]_vars

----------------------------------------------------------------------------
(* The weekday the form stores *)

\* C18: the day_of_week a completed Set Pattern stored is the number of the
\* picked label's weekday in the 0 = Sunday .. 6 = Saturday convention.
C18_StoredWeekdayIsSundayZero ==
    [][\A s \in Sessions :
          SetPatternCompletes(s) =>
              \A p \in PatternFor(driver_monthly_dayoff', loc[s].selectedDriver,
                                  loc[s].selectedMonth, loc[s].selectedYear) :
                  p.day_of_week = PickedWeekday(loc[s].selectedDayOfWeek)
      ]_vars

----------------------------------------------------------------------------
(* The ledger under assignments and updates *)

\* One UI session that assigns and updates replacements, starting without
\* overtime records.
NextSwap ==
    \/ AssignReplacement("s1")
    \/ UpdateReplacement("s1")

SpecSwap == InitAssign /\ [][NextSwap]_vars

\* C19: between operations, for every driver R and date D, R's replacement
\* overtime record of D holds 8 hours for each replacement row that puts R on a
\* shift of D, and R has no replacement overtime record of D when no row does.
C19_HoursMatchReplacementRows ==
    AllIdle =>
        \A R \in Drivers, D \in DialogDates :
            LET n == Cardinality(ShiftsReplacedBy(replacements, schedules, R, D))
                mine == ReplacementRecordsOf(overtime_records, R, D)
            IN IF n = 0
               THEN mine = {}
               ELSE Cardinality(mine) = 1 /\ SumHours(mine) = 8 * n

----------------------------------------------------------------------------
(* Rows the expansion finds in its way *)

\* The driver's rows of the month on the dates the trigger's loop selects for
\* weekday day_of_week.
RowsOnMatchingDates(sch, driver, y, m, day_of_week) ==
    {r \in MonthRows(sch, driver, y, m) : LoopDow(r.date) = day_of_week}

\* C20: a schedule row that a completed Set Pattern found for the driver on a
\* date its expansion selects is kept and updated in place: afterwards the row
\* with its id is there, for the same driver and date, with is_day_off true and
\* is_annual_leave as it was.
C20_MatchingRowUpdatedInPlace ==
    [][\A s \in Sessions :
          SetPatternCompletes(s) =>
              \A r \in RowsOnMatchingDates(schedules, loc[s].selectedDriver,
                                           loc[s].selectedYear, loc[s].selectedMonth,
                                           DayOfWeekOf(loc[s].selectedDayOfWeek)) :
                  \E n \in schedules' :
                      /\ n.id = r.id
                      /\ n.driver_id = r.driver_id /\ n.date = r.date
                      /\ n.is_day_off = TRUE
                      /\ n.is_annual_leave = r.is_annual_leave
      ]_vars

----------------------------------------------------------------------------
(* Concurrent Set Patterns on one pattern *)

\* Session s completes a Set Pattern on a pattern that another session's Set
\* Pattern, now complete, gave another weekday after s had read it: s's write is
\* the one that reaches the store last.
LastOfTwoSetPatterns(s) ==
    /\ SetPatternCompletes(s)
    /\ loc[s].existingPattern # NULL
    /\ \A t \in Sessions \ {s} : pc[t] = "idle" /\ toast[t] = SetPatternSucceeded
    /\ \E p \in driver_monthly_dayoff :
          /\ p.id = loc[s].existingPattern.id
          /\ p.day_of_week # loc[s].existingPattern.day_of_week
          /\ p.day_of_week # DayOfWeekOf(loc[s].selectedDayOfWeek)

----------------------------------------------------------------------------
(* The month and the year of the schedule page *)

\* new Date().getFullYear() and new Date().getMonth() + 1 of the day the page is
\* used.
CurrentYear == PageYear
CurrentMonth == PageMonth

\* The month and year parameters the schedule page is opened with (prevMonthUrl
\* leads to the year before); 0 stands for a parameter that is falsy.
SearchMonths == {0, CurrentMonth, 13}
SearchYears == {0, CurrentYear - 1, CurrentYear}

\* useState(initialMonth ? initialMonth.toString() : (new Date().getMonth() + 1).toString())
InitialSelectedMonth(initialMonth) ==
    IF initialMonth # 0 THEN initialMonth ELSE CurrentMonth

\* useState(initialYear ? initialYear.toString() : new Date().getFullYear().toString())
InitialSelectedYear(initialYear) ==
    IF initialYear # 0 THEN initialYear ELSE CurrentYear

\* The options of the month select and of the year select.
months == 1..12
years == {CurrentYear, CurrentYear + 1}

\* Set Pattern from a page opened with any of the parameters: the month and the
\* year are what the page gave the form or an option the user picked.
NextPage ==
    \/ \E initialMonth \in SearchMonths, initialYear \in SearchYears :
         \E d \in {"d1"}, w \in FormDays \ {""},
            m \in {InitialSelectedMonth(initialMonth)}
                      \cup {o \in months : o = CurrentMonth},
            y \in {InitialSelectedYear(initialYear)}
                      \cup {o \in years : o = CurrentYear + 1} :
           handleSubmit_fetch("s1", d, m, y, w)
    \/ handleSubmit_write("s1")

SpecPage == Init /\ [][NextPage]_vars

\* C22: every pattern row has month in 1..12, day_of_week in 0..6 and a year
\* that is the current year or a later one.
C22_PatternRowsInRange ==
    \A p \in driver_monthly_dayoff :
        /\ p.month \in 1..12
        /\ p.day_of_week \in 0..6
        /\ p.year >= CurrentYear

----------------------------------------------------------------------------
(* Replacements while the marks change *)

\* Session s1 assigns and updates replacements from the dialog it opened;
\* session s2 marks and unmarks the absent driver d1 and the replacement driver
\* d3 on the same day.
NextAbsence ==
    \/ \E day \in DialogDays : OpenDialog("s1", day)
    \/ SelectReplacement("s1")
    \/ ReplacementSteps("s1")
    \/ MarkOn("s2", {"d1", "d3"}, DialogDays)

SpecAbsence == InitAssign /\ [][NextAbsence]_vars

\* Session s takes the first step of Assign Replacement and the store accepts
\* the insert of the replacement row.
AssignInserts(s) ==
    /\ pc[s] = "idle"
    /\ pc'[s] = "assign_ot_select"
    /\ replacements' # replacements

\* C23: every replacement row that Assign Replacement inserts references a
\* schedule row that, at the insert, is in the store and is flagged day off or
\* annual leave, whatever another session did to it since the dialog read it.
C23_InsertReferencesAbsence ==
    [][\A s \in Sessions :
          AssignInserts(s) =>
              \A n \in replacements' \ replacements :
                  \E r \in schedules :
                      /\ r.id = n.schedule_id
                      /\ r.is_day_off \/ r.is_annual_leave
      ]_vars

----------------------------------------------------------------------------
(* Assign Replacement for all shifts of the absent driver: the dialog's       *)
(* handleAssignReplacement(scheduleId, replacementDriverId, driverId)         *)

\* driver_shifts of a driver: every driver works every shift.
driver_shifts(driverId) == Shifts

\* otHours with the hours of one shift only.
otHours_OneShift(driverShifts) == ReplacementHours

\* const otHours = driverShifts.length * 8
otHours(driverShifts) == Cardinality(driverShifts) * ReplacementHours

\* handleAssignReplacement up to the read of the absent driver's shifts.
handleAssignReplacementAll_fetch(s, scheduleId, replacementDriverId, driverId, day) ==
    /\ pc[s] = "idle"
    /\ pc' = [pc EXCEPT ![s] = "assign_all_insert"]
    /\ loc' = [loc EXCEPT ![s] =
                 [op |-> "assign_all", scheduleId |-> scheduleId,
                  replacementDriverId |-> replacementDriverId,
                  driverId |-> driverId, dateStr |-> ToISODate(day, tz),
                  driverShifts |-> driver_shifts(driverId),
                  pending |-> driver_shifts(driverId),
                  resolved |-> {}]]
    /\ toast' = [toast EXCEPT ![s] = "none"]
    /\ UNCHANGED <<driver_monthly_dayoff, schedules, replacements, overtime_records,
                   trigger_variant, tz>>

\* One of the replacementPromises: the insert for one shift, a request of its
\* own.  The store accepts it or answers it with an error; the promise resolves
\* to the row or to null either way, and nothing reads the error.
handleAssignReplacementAll_insert(s, shiftId, accepted) ==
    /\ pc[s] = "assign_all_insert"
    /\ shiftId \in loc[s].pending
    /\ LET row == [id |-> FreshId(<<"replacement", loc[s].scheduleId, shiftId>>,
                                  TakenIds(driver_monthly_dayoff, schedules,
                                           replacements, overtime_records)),
                   schedule_id |-> loc[s].scheduleId,
                   replacement_driver_id |-> loc[s].replacementDriverId,
                   shift_id |-> shiftId]
           done == accepted /\ ReplacementFkOk(schedules, loc[s].scheduleId)
       IN /\ replacements' = IF done THEN replacements \cup {row} ELSE replacements
          /\ loc' = [loc EXCEPT ![s].pending = @ \ {shiftId},
                                ![s].resolved = IF done THEN @ \cup {row} ELSE @]
    /\ UNCHANGED <<driver_monthly_dayoff, schedules, overtime_records,
                   trigger_variant, tz, pc, toast>>

\* handleAssignReplacement after Promise.all: the read of the replacement
\* driver's overtime record.
handleAssignReplacementAll_select(s) ==
    /\ pc[s] = "assign_all_insert"
    /\ loc[s].pending = {}
    /\ loc' = [loc EXCEPT ![s] =
                 @ @@ [existingOT |-> ExistingOT(overtime_records,
                                                 loc[s].replacementDriverId,
                                                 loc[s].dateStr)]]
    /\ pc' = [pc EXCEPT ![s] = "assign_all_ot_write"]
    /\ UNCHANGED <<driver_monthly_dayoff, schedules, replacements, overtime_records,
                   trigger_variant, tz, toast>>

\* handleAssignReplacement from the overtime write to its end.
handleAssignReplacementAll_write(s) ==
    /\ pc[s] = "assign_all_ot_write"
    /\ LET l == loc[s]
           hours == otHours(l.driverShifts)
       IN overtime_records' =
            IF l.existingOT # NULL
            THEN {IF o.id = l.existingOT.id
                     THEN [o EXCEPT !.hours = l.existingOT.hours + hours]
                     ELSE o : o \in overtime_records}
            ELSE overtime_records \cup
                   {[id |-> FreshId(<<"overtime", l.replacementDriverId, l.dateStr>>,
                                    TakenIds(driver_monthly_dayoff, schedules,
                                             replacements, overtime_records)),
                     driver_id |-> l.replacementDriverId, date |-> l.dateStr,
                     hours |-> hours, ot_type |-> "replacement",
                     ot_rate |-> ReplacementRate]}
    /\ Done(s, "Replacements assigned")
    /\ UNCHANGED <<driver_monthly_dayoff, schedules, replacements, trigger_variant, tz>>

\* Assign Replacement for all shifts, from a dialog that shows the store as it
\* is and shows no replacement for the schedule.
AssignReplacementAll(s) ==
    \/ \E day \in DialogDays, value \in Drivers :
         \E schedule \in AbsentSchedules(schedules, ToISODate(day, tz)) :
           /\ OvertimeInBound
           /\ value \in getAvailableDrivers(schedules, ToISODate(day, tz))
                           \ {schedule.driver_id}
           /\ {r \in replacements : r.schedule_id = schedule.id} = {}
           /\ handleAssignReplacementAll_fetch(s, schedule.id, value,
                                               schedule.driver_id, day)
    \/ \E shiftId \in Shifts, accepted \in BOOLEAN :
         handleAssignReplacementAll_insert(s, shiftId, accepted)
    \/ handleAssignReplacementAll_select(s)
    \/ handleAssignReplacementAll_write(s)

NextBatch == AssignReplacementAll("s1")

SpecBatch == InitAssign /\ [][NextBatch]_vars

\* Session s takes the step that completes an Assign Replacement for all shifts.
AssignAllCompletes(s) ==
    /\ pc[s] = "assign_all_ot_write"
    /\ pc'[s] = "idle"

\* C24: the inserts of an Assign Replacement for all shifts are writes of their
\* own: however many of them the store rejected, the operation ends with its
\* success message, the rows of the accepted inserts are in the store, and the
\* replacement driver's overtime of the date has grown by 8 hours for every
\* shift of the absent driver.
C24_PartialFailureStillAccrues ==
    [][\A s \in Sessions :
          AssignAllCompletes(s) =>
              LET l == loc[s]
                  R == l.replacementDriverId
              IN /\ toast'[s] = "Replacements assigned"
                 /\ l.resolved \subseteq replacements'
                 /\ {r.shift_id : r \in l.resolved} \subseteq l.driverShifts
                 /\ SumHours(RecordsOf(overtime_records', R, l.dateStr))
                      = SumHours(RecordsOf(overtime_records, R, l.dateStr))
                          + 8 * Cardinality(l.driverShifts)
      ]_vars

\* C24 witness: an Assign Replacement for all shifts has ended with one insert
\* rejected and another accepted, and the replacement driver's overtime hours
\* are more than 8 for each replacement row.
C24_Witness ==
    /\ AllIdle
    /\ toast["s1"] = "Replacements assigned"
    /\ \E R \in Drivers, D \in DialogDates :
          LET n == Cardinality(ShiftsReplacedBy(replacements, schedules, R, D))
          IN /\ n >= 1
             /\ n < NumShifts
             /\ SumHours(ReplacementRecordsOf(overtime_records, R, D)) > 8 * n

----------------------------------------------------------------------------
(* The trigger's loop, date by date *)

\* The months and years whose expansion is followed date by date: every month
\* of a common year, of a leap year and of a century year that is no leap year.
LoopMonths == 1..12
LoopYears == {PageYear - 1, PageYear, 2100}
\* The number of pattern rows up to which insertions are followed.
MaxPatterns == 1

\* create_monthly_dayoff_schedules from BEGIN to the WHILE, for the row NEWROW
\* that the statement has just put into driver_monthly_dayoff.
trigger_begin(s, NEWROW) ==
    /\ pc[s] = "idle"
    /\ Cardinality(driver_monthly_dayoff) < MaxPatterns
    /\ PatternChecksOk(NEWROW)
    /\ PatternUniqueOk(driver_monthly_dayoff, NEWROW)
    /\ driver_monthly_dayoff' = driver_monthly_dayoff \cup {NEWROW}
    /\ LET curr_date == make_date(NEWROW.year, NEWROW.month, 1)
           last_day == LastDayOfMonth(NEWROW.year, NEWROW.month)
           gone == IF trigger_variant = "clearing"
                      THEN MonthDayOffRows(schedules, NEWROW.driver_id,
                                           curr_date, last_day)
                      ELSE {}
           cleared == DeleteSchedules(schedules, replacements, gone)
       IN /\ schedules' = cleared.schedules
          /\ replacements' = cleared.replacements
          /\ loc' = [loc EXCEPT ![s] =
                       [op |-> "expand", NEWROW |-> NEWROW, curr_date |-> curr_date,
                        last_day |-> last_day, examined |-> <<>>]]
    /\ pc' = [pc EXCEPT ![s] = "expand_loop"]
    /\ UNCHANGED <<overtime_records, trigger_variant, tz, toast>>

\* One pass of WHILE curr_date <= last_day LOOP .. END LOOP.
trigger_loop(s) ==
    /\ pc[s] = "expand_loop"
    /\ loc[s].curr_date <= loc[s].last_day
    /\ schedules' =
           IF LoopDow(loc[s].curr_date) = loc[s].NEWROW.day_of_week
           THEN UpsertDayOff(schedules, loc[s].NEWROW.driver_id, loc[s].curr_date,
                             TakenIds(driver_monthly_dayoff, schedules, replacements,
                                      overtime_records))
           ELSE schedules
    /\ loc' = [loc EXCEPT ![s].examined = Append(@, loc[s].curr_date),
                          ![s].curr_date = @ + 1]
    /\ UNCHANGED <<driver_monthly_dayoff, replacements, overtime_records,
                   trigger_variant, tz, pc, toast>>

\* The exit of the loop: RETURN NEW.
trigger_return(s) ==
    /\ pc[s] = "expand_loop"
    /\ loc[s].curr_date > loc[s].last_day
    /\ pc' = [pc EXCEPT ![s] = "idle"]
    /\ loc' = [loc EXCEPT ![s] = [op |-> "none"]]
    /\ UNCHANGED <<driver_monthly_dayoff, schedules, replacements, overtime_records,
                   trigger_variant, tz, toast>>

NextExpand ==
    \/ \E m \in LoopMonths, y \in LoopYears, w \in FormDays \ {""} :
         trigger_begin("s1",
                       [id |-> FreshId(<<"pattern", "d1", m, y>>,
                                       TakenIds(driver_monthly_dayoff, schedules,
                                                replacements, overtime_records)),
                        driver_id |-> "d1", month |-> m, year |-> y,
                        day_of_week |-> DayOfWeekOf(w)])
    \/ trigger_loop("s1")
    \/ trigger_return("s1")

\* The store runs the trigger to its end once the statement has started.
SpecExpand ==
    Init /\ [][NextExpand]_vars /\ WF_vars(trigger_loop("s1") \/ trigger_return("s1"))

\* C25: for every month and year the expansion ends, and when it ends it has
\* examined the dates of the month, from the first to the last, each once and in
\* ascending order, and no other date.
C25_LoopCoversMonthOnce ==
    /\ [][\A s \in Sessions :
            (pc[s] = "expand_loop" /\ pc'[s] = "idle") =>
                LET y == loc[s].NEWROW.year
                    m == loc[s].NEWROW.month
                IN loc[s].examined =
                     [k \in 1..DaysInMonth(y, m) |-> make_date(y, m, k)]
       ]_vars
    /\ \A s \in Sessions : (pc[s] = "expand_loop") ~> (pc[s] = "idle")

\* C25 witness: the loop stands after the 29th date of a February.
C25_Witness ==
    /\ pc["s1"] = "expand_loop"
    /\ loc["s1"].NEWROW.month = 2
    /\ Len(loc["s1"].examined) = 29
    /\ loc["s1"].curr_date > loc["s1"].last_day

----------------------------------------------------------------------------
(* Concurrent Assign Replacements *)

\* Several UI sessions that assign replacements, their handlers interleaved at
\* every await.
NextAssignConc == \E s \in Sessions : AssignReplacement(s)

SpecAssignConc == InitAssign /\ [][NextAssignConc]_vars

\* C26: when the Assign Replacements of two sessions for one replacement driver
\* and date have both ended, the driver has exactly one replacement overtime
\* record of the date, and its hours hold the 8 hours of each assignment.
C26_ConcurrentAssignsBothCount ==
    AllIdle =>
        \A R \in Drivers, D \in DialogDates :
            LET n == Cardinality(ShiftsReplacedBy(replacements, schedules, R, D))
                mine == ReplacementRecordsOf(overtime_records, R, D)
            IN n >= 2 =>
                 \E o \in mine : mine = {o} /\ o.hours = 8 * n

----------------------------------------------------------------------------
(* Patterns over schedules that have replacements *)

\* One UI session that assigns replacements on the dialog's day and sets and
\* deletes the pattern of driver d1, starting from d1's pattern and its rows.
NextCascade ==
    \/ AssignReplacement("s1")
    \/ SetPattern("s1", {"d1"}, FormDays \ {""})
    \/ DeletePattern("s1")

SpecCascade == InitAbort /\ [][NextCascade]_vars

\* The replacement rows on the driver's schedule rows of the month.
ReplacementsInMonth(rep, sch, driver, y, m) ==
    {r \in rep : \E x \in MonthRows(sch, driver, y, m) : x.id = r.schedule_id}

\* C27: a Set Pattern on (driver, month, year), with the weekday the pattern has
\* or with another, leaves every replacement row on the driver's schedule rows
\* of the month as it was.
C27_SetPatternKeepsReplacements ==
    [][\A s \in Sessions :
          SetPatternCompletes(s) =>
              ReplacementsInMonth(replacements, schedules, loc[s].selectedDriver,
                                  loc[s].selectedYear, loc[s].selectedMonth)
                  \subseteq replacements'
      ]_vars


\* For every driver and date of the dialog, the replacement overtime hours are 8
\* for each replacement row of the driver on the date.
HoursMatchRows(ot, rep, sch) ==
    \A R \in Drivers, D \in DialogDates :
        SumHours(ReplacementRecordsOf(ot, R, D))
            = 8 * Cardinality(ShiftsReplacedBy(rep, sch, R, D))

\* Session s takes the step of Delete Pattern that deletes the schedules.
DeletePatternDeletesSchedules(s) ==
    /\ pc[s] = "delete_schedules"
    /\ pc'[s] = "delete_pattern"

\* C30: when Delete Pattern removes day-off rows that had replacements, the
\* overtime of those replacements goes with them: replacement overtime hours
\* that were 8 for each replacement row before the delete are so after it.
C30_DeleteRemovesAccruedOvertime ==
    [][\A s \in Sessions :
          (/\ DeletePatternDeletesSchedules(s)
           /\ HoursMatchRows(overtime_records, replacements, schedules))
            => HoursMatchRows(overtime_records', replacements', schedules')
      ]_vars

----------------------------------------------------------------------------
(* Replacements and the marks of their drivers *)

\* C28: every replacement row belongs to a schedule row that is flagged day off
\* or annual leave now: taking a mark away leaves no replacement on a schedule
\* that is no absence any more.
C28_ReplacementsOnAbsencesOnly ==
    \A n \in replacements :
        \E r \in schedules :
            /\ r.id = n.schedule_id
            /\ r.is_day_off \/ r.is_annual_leave

\* C29: the replacement driver of every replacement row is another driver than
\* the absent one of its schedule and has no schedule row flagged day off or
\* annual leave on the schedule's date, whatever was marked after the
\* assignment.
C29_ReplacementDriverAvailable ==
    \A n \in replacements :
        \A r \in schedules :
            r.id = n.schedule_id =>
                /\ n.replacement_driver_id # r.driver_id
                /\ \A x \in ScheduleFor(schedules, n.replacement_driver_id, r.date) :
                       ~x.is_day_off /\ ~x.is_annual_leave

====
